---- MODULE Spec2Model ----
(***************************************************************************)
(* Stratified dataset subsampling of pytorch-pretrained-cnns.              *)
(*                                                                         *)
(*   src/utils.py  check_in_range       the fraction as a command line     *)
(*                                      argument                           *)
(*   src/utils.py  minimize_dataset     the subsampler: construction and   *)
(*                                      call                               *)
(*   src/data/__init__.py  RandomMinimized*Data                            *)
(*                                      the data modules that build one,   *)
(*                                      and their dataloaders              *)
(*                                                                         *)
(*   src/module.py  TrainModule          the accuracy metric over the       *)
(*                                      training, validation and test      *)
(*                                      steps, and acc_max                 *)
(*                                                                         *)
(*   src/wandb_sweep.py  main            the sweep generator: one script,   *)
(*                                      one sweep and one command line per *)
(*                                      dataset, model and checkpoint      *)
(*                                                                         *)
(* Python indices are 0-based: a dataset of n items has the indices        *)
(* 0..n-1, and index k is held at position k+1 of a TLA+ sequence.         *)
(***************************************************************************)
EXTENDS Integers, Sequences, FiniteSets, TLC

\* ------------------------------------------------------------- bounds

\* longest label list of a dataset in Spec
MaxLen == 4
\* most calls of one subsampler in a behaviour
MaxCalls == 2
\* largest seed a data module draws in the model (the code draws 0..dataset_size)
MaxSeed == 1
\* most items of one class in SpecCounts
MaxCount == 50
\* most items of a third class in SpecCounts
MaxThird == 2
\* largest magnitude of a command line argument in SpecArgs
MaxArg == 110
\* most dataloader calls of one data module in SpecModule
MaxLoads == 3
\* number of processes that call the subsampler at the same time in SpecRace
MaxProcs == 2
\* most samples of one batch in SpecTrain
MaxBatch == 2
\* most steps and epoch ends of one run in SpecTrain
MaxSteps == 5
\* longest list of datasets, of models and of checkpoint inputs in SpecSweep
MaxList == 2
\* most items of a dataset that is split by position in SpecSplit
MaxItems == 40
\* most constructions of a dataset class on one root in SpecFetch
MaxMade == 4
\* most files under root_dir/train, and under root_dir/valid, in SpecCinic
MaxFiles == 3

VARIABLES
    dataset,    \* the dataset that dataset_func builds
    sampler,    \* the minimize_dataset object, NoSampler before construction
    ctor,       \* how the last construction ended
    builds,     \* number of times dataset_func was invoked
    outcome,    \* how the last call ended, with the view it returned
    nested,     \* how a subsampler ended that was given the returned view as its dataset
    rng,        \* the draws numpy made so far, by seed and request
    log,        \* every successful call: its arguments and the indices it selected
    class_counts, \* SpecCounts: the class counts of the dataset, by label
    frac,       \* SpecCounts: the dataset_size of the subsampler
    drawn,      \* SpecCounts: how the call ended, with the number selected per class
    argv,       \* SpecArgs: the command line argument given as the fraction
    parsed,     \* SpecArgs: how check_in_range ended, with the value it returned
    data_module, \* SpecModule: the dataset class of the data module and the data on disk
    disk,       \* SpecModule: the state of root_dir on the file system
    events,     \* SpecModule: what every dataloader call did, in the order it did it
    procs,      \* SpecRace: where each process is in its call, and how the call ended
    tm,         \* SpecTrain: the TrainModule: the state of self.accuracy, and self.acc_max
    logged,     \* SpecTrain: the value last logged under each key
    hist,       \* SpecTrain: the batches each step was passed, and the accuracies computed
    config,     \* SpecSweep: the argument and the configuration file of main, and the
                \* checkpoint files under output_dir
    sweep,      \* SpecSweep: where main is in its loops, and how it ended
    world,      \* SpecSweep: directories, script files, registered sweeps, command lines
    split_module, \* SpecSplit: the data module and the length of its dataset
    samplers,   \* SpecSplit: the indices of the sampler of each dataloader built
    fetch,      \* SpecFetch: the dataset class, the state of its root, the downloads made
    constructions, \* SpecFetch: every construction of the dataset, and how it ended
    cinic,      \* SpecCinic: the part of the CINIC10Data module and the files on disk
    listed      \* SpecCinic: the files the dataset of each dataloader holds

subsVars == <<dataset, sampler, ctor, builds, outcome, nested, rng, log>>
countVars == <<class_counts, frac, drawn>>
argVars == <<argv, parsed>>
moduleVars == <<data_module, disk, events>>
\* the variables of the specifications that come after the first three
trainVars == <<tm, logged, hist>>
sweepVars == <<config, sweep, world>>
splitVars == <<split_module, samplers>>
\* the variables of the specifications that come after SpecSweep
fetchVars == <<fetch, constructions>>
cinicVars == <<cinic, listed>>
laterVars == <<splitVars, fetchVars, cinicVars>>
restVars == <<moduleVars, procs, trainVars, sweepVars, laterVars>>
vars == <<subsVars, countVars, argVars, restVars>>

\* ------------------------------------------------------------ helpers

Range(s) == {s[i] : i \in DOMAIN s}

Reverse(s) == [i \in 1..Len(s) |-> s[Len(s) + 1 - i]]

RECURSIVE SumOver(_, _)
\* the sum of f over the finite set S
SumOver(f, S) ==
    IF S = {} THEN 0
    ELSE LET x == CHOOSE y \in S : TRUE IN f[x] + SumOver(f, S \ {x})

\* a shuffle that draws with replacement: every sequence over S as long as S
PermsWithRepeats(S) == [1..Cardinality(S) -> S]

RECURSIVE Perms(_)
\* every ordering of the finite set S, as a sequence
Perms(S) ==
    IF S = {} THEN {<<>>}
    ELSE UNION {{<<x>> \o p : p \in Perms(S \ {x})} : x \in S}

RECURSIVE SeqsUpTo(_, _)
\* every sequence over S of length at most n
SeqsUpTo(S, n) ==
    IF n = 0 THEN {<<>>}
    ELSE LET shorter == SeqsUpTo(S, n - 1)
         IN  shorter \cup {Append(s, x) : s \in {t \in shorter : Len(t) = n - 1}, x \in S}

\* ----------------------------------------------------------- datasets

\* hasattr(obj, name) on an object held as a record of its attributes
HasAttr(obj, name) == name \in DOMAIN obj

\* len(dataset)
DatasetLen(d) == Len(d.y)

\* dataset[k]: the (item, label) pair at index k
DatasetGetItem(d, k) == <<d.items[k + 1], d.y[k + 1]>>

Items(n) == [p \in 1..n |-> <<"img", p - 1>>]

\* A dataset holds its items and the label of each (y); it may expose the labels
\* as an attribute targets, as an attribute labels, as both or as neither. Where
\* it has both, labels may be the same list, the list reversed, or a list that
\* puts every item in class 0.
DatasetsOf(y) ==
    LET base == [items |-> Items(Len(y)), y |-> y]
    IN  { base,
          [items |-> base.items, y |-> y, targets |-> y],
          [items |-> base.items, y |-> y, labels |-> y],
          [items |-> base.items, y |-> y, targets |-> y, labels |-> y],
          [items |-> base.items, y |-> y, targets |-> y, labels |-> Reverse(y)],
          [items |-> base.items, y |-> y, targets |-> y,
           labels |-> [i \in 1..Len(y) |-> 0]] }

\* the label values of the datasets of Spec
LabelValues == {0, 1}

LabelLists == SeqsUpTo(LabelValues, MaxLen)

Datasets == UNION {DatasetsOf(y) : y \in LabelLists}

\* ------------------------------------------- sklearn: train_test_split

\* The pairs <<f, n>>, n <= 129, where the double product (f / 100) * n falls just
\* below the integer f * n / 100: 58 / 100 * 50 is 28.999999999999996.
FloatShortfall == {<<58, 50>>, <<70, 90>>, <<29, 100>>, <<57, 100>>, <<58, 100>>}

\* floor(train_size * n_samples) with train_size = dataset_size / 100, in doubles
FloorFrac(f, n) ==
    IF <<f, n>> \in FloatShortfall THEN (f * n) \div 100 - 1 ELSE (f * n) \div 100

\* _validate_shuffle_split letting train_size = 0.0 through (< for <=)
ValidateShuffleSplitZero(n, f) ==
    IF f < 0 \/ f >= 100
    THEN [status |-> "ValueError", msg |-> "train_size", n_train |-> 0, n_test |-> 0]
    ELSE IF FloorFrac(f, n) = 0
    THEN [status |-> "ValueError", msg |-> "empty_train", n_train |-> 0, n_test |-> n]
    ELSE [status |-> "ok", msg |-> "", n_train |-> FloorFrac(f, n),
          n_test |-> n - FloorFrac(f, n)]

\* _validate_shuffle_split(n_samples, test_size=None, train_size=dataset_size / 100)
ValidateShuffleSplit(n, f) ==
    IF f <= 0 \/ f >= 100
    THEN [status |-> "ValueError", msg |-> "train_size", n_train |-> 0, n_test |-> 0]
    ELSE IF FloorFrac(f, n) = 0
    THEN [status |-> "ValueError", msg |-> "empty_train", n_train |-> 0, n_test |-> n]
    ELSE [status |-> "ok", msg |-> "", n_train |-> FloorFrac(f, n),
          n_test |-> n - FloorFrac(f, n)]

\* class_counts of a label list: how many items each label that occurs has
ClassCounts(t) == [c \in Range(t) |-> Cardinality({i \in DOMAIN t : t[i] = c})]

\* _approximate_mode handing the left-over draws to any classes, whatever their
\* remainders
ApproximateModeUnranked(cnt, n_draws) ==
    LET C       == DOMAIN cnt
        n       == SumOver(cnt, C)
        floored == [c \in C |-> (cnt[c] * n_draws) \div n]
        need    == n_draws - SumOver(floored, C)
    IN  {[c \in C |-> floored[c] + (IF c \in T THEN 1 ELSE 0)] :
            T \in {U \in SUBSET C : Cardinality(U) = need}}

\* _approximate_mode(class_counts, n_draws, rng): the per-class draws, one result
\* for every way the random tie-break among equal remainders can fall
ApproximateMode(cnt, n_draws) ==
    LET C       == DOMAIN cnt
        n       == SumOver(cnt, C)
        floored == [c \in C |-> (cnt[c] * n_draws) \div n]
        rem     == [c \in C |-> (cnt[c] * n_draws) % n]
        need    == n_draws - SumOver(floored, C)
        adds    == {T \in SUBSET C :
                       /\ Cardinality(T) = need
                       /\ \A a \in T : \A b \in C \ T : rem[a] >= rem[b]}
    IN  {[c \in C |-> floored[c] + (IF c \in T THEN 1 ELSE 0)] : T \in adds}

\* StratifiedShuffleSplit._iter_indices on class counts: the checks it makes and
\* the per-class train counts n_i it can draw
StratifiedCounts(cnt, f) ==
    LET C  == DOMAIN cnt
        n  == SumOver(cnt, C)
        sz == ValidateShuffleSplit(n, f)
    IN  IF sz.status # "ok"
        THEN [status |-> sz.status, msg |-> sz.msg, n_train |-> 0, modes |-> {}]
        ELSE IF \E c \in C : cnt[c] < 2
        THEN [status |-> "ValueError", msg |-> "class_member", n_train |-> 0, modes |-> {}]
        ELSE IF sz.n_train < Cardinality(C)
        THEN [status |-> "ValueError", msg |-> "train_lt_classes", n_train |-> 0, modes |-> {}]
        ELSE IF sz.n_test < Cardinality(C)
        THEN [status |-> "ValueError", msg |-> "test_lt_classes", n_train |-> 0, modes |-> {}]
        ELSE [status |-> "ok", msg |-> "", n_train |-> sz.n_train,
              modes |-> ApproximateMode(cnt, sz.n_train)]

\* how many of the indices in T carry label c
Drawn(t, T, c) == Cardinality({k \in T : t[k + 1] = c})

\* train_test_split(np.arange(n), train_size=f / 100, stratify=t, random_state=...):
\* the train index sequences it can return: n_i[c] indices of every class c, drawn
\* in any order from the class and shuffled as a whole
TrainTestSplit(t, f) ==
    LET sc == StratifiedCounts(ClassCounts(t), f)
    IN  IF sc.status # "ok"
        THEN [status |-> sc.status, msg |-> sc.msg, choices |-> {}]
        ELSE [status |-> "ok", msg |-> "",
              choices |-> UNION {Perms(T) : T \in
                  {U \in SUBSET (0..(Len(t) - 1)) :
                      \E m \in sc.modes : \A c \in DOMAIN m : Drawn(t, U, c) = m[c]}}]

\* a generator seeded from the clock (random_state not passed on): every request
\* gets some draws
RandomStateUnseeded(seed, request, choices) == choices

\* np.random.RandomState(seed): the generator is a function of its seed, so a
\* request it has served before gets the same draws again; a new request gets
\* some draws, which ones is left open
RandomState(seed, request, choices) ==
    IF <<seed, request>> \in DOMAIN rng THEN {rng[<<seed, request>>]} ELSE choices

\* -------------------------------------------- torch.utils.data.Subset

\* a Subset that forwards the labels of its items as targets
SubsetWithTargets(d, indices) ==
    [dataset |-> d, indices |-> indices,
     targets |-> [i \in 1..Len(indices) |-> d.y[indices[i] + 1]]]

\* Subset(dataset, indices)
Subset(d, indices) == [dataset |-> d, indices |-> indices]

\* len(subset)
SubsetLen(v) == Len(v.indices)

\* subset[i] = dataset[i]: the index list is not applied
SubsetGetItemDirect(v, i) == DatasetGetItem(v.dataset, i)

\* subset[i] = dataset[indices[i]]
SubsetGetItem(v, i) == DatasetGetItem(v.dataset, v.indices[i + 1])

\* ------------------------------------------------------ the subsampler

NoSampler == [dataset_size |-> 0, random_value |-> 0, built |-> FALSE]

NoView == [dataset |-> <<>>, indices |-> <<>>]

NoOutcome == [status |-> "none", msg |-> "", view |-> NoView]

\* the fractions a subsampler is constructed with in Spec
Fractions == {-5, 0, 1, 41, 50, 99, 100, 150}

Seeds == 0..MaxSeed

Min(a, b) == IF a <= b THEN a ELSE b

\* the probe going on with an empty label list when the dataset has no attribute
ProbeTargetsLenient(obj) ==
    IF HasAttr(obj, "targets") THEN [status |-> "ok", targets |-> obj.targets]
    ELSE IF HasAttr(obj, "labels") THEN [status |-> "ok", targets |-> obj.labels]
    ELSE [status |-> "ok", targets |-> <<>>]

\* the probe looking for labels before targets
ProbeTargetsLabelsFirst(obj) ==
    IF HasAttr(obj, "labels") THEN [status |-> "ok", targets |-> obj.labels]
    ELSE IF HasAttr(obj, "targets") THEN [status |-> "ok", targets |-> obj.targets]
    ELSE [status |-> "NotImplementedError", targets |-> <<>>]

\* lines 121-128 of __call__: the label list the split is stratified by, targets
\* before labels, or the error when the dataset has neither attribute
ProbeTargets(obj) ==
    IF HasAttr(obj, "targets") THEN [status |-> "ok", targets |-> obj.targets]
    ELSE IF HasAttr(obj, "labels") THEN [status |-> "ok", targets |-> obj.labels]
    ELSE [status |-> "NotImplementedError", targets |-> <<>>]

NoDrawn == [status |-> "none", msg |-> "", n_i |-> <<>>]

NoParsed == [status |-> "none", ivalue |-> 0]

NoArg == [kind |-> "none", tenths |-> 0]

\* the state of the variables of a specification that does not use them
IdleSubsampler ==
    /\ dataset = [items |-> <<>>, y |-> <<>>]
    /\ sampler = NoSampler
    /\ ctor = "none"
    /\ builds = 0
    /\ outcome = NoOutcome
    /\ nested = "none"
    /\ rng = <<>>
    /\ log = {}

IdleCounts == class_counts = <<>> /\ frac = 0 /\ drawn = NoDrawn

IdleArgs == argv = NoArg /\ parsed = NoParsed

NoModule == [name |-> "none", source |-> <<>>]

IdleModule == data_module = NoModule /\ disk = "none" /\ events = <<>>

IdleRace == procs = <<>>

IdleTrain == tm = <<>> /\ logged = <<>> /\ hist = <<>>

IdleSweep == config = <<>> /\ sweep = <<>> /\ world = <<>>

IdleSplit == split_module = <<>> /\ samplers = <<>>

IdleFetch == fetch = <<>> /\ constructions = <<>>

IdleCinic == cinic = <<>> /\ listed = <<>>

IdleLater == IdleSplit /\ IdleFetch /\ IdleCinic

IdleRest == IdleModule /\ IdleRace /\ IdleTrain /\ IdleSweep /\ IdleLater

Init ==
    /\ dataset \in Datasets
    /\ sampler = NoSampler
    /\ ctor = "none"
    /\ builds = 0
    /\ outcome = NoOutcome
    /\ nested = "none"
    /\ rng = <<>>
    /\ log = {}
    /\ IdleCounts
    /\ IdleArgs
    /\ IdleRest

\* minimize_dataset.__init__(dataset_func, dataset_size, random_value)
minimize_dataset_init(f, s) ==
    /\ ~sampler.built
    /\ sampler' = [dataset_size |-> f, random_value |-> s, built |-> TRUE]
    /\ ctor' = "ok"
    /\ UNCHANGED <<dataset, builds, outcome, nested, rng, log, countVars, argVars, restVars>>

\* a module that draws its seed from 1..dataset_size + 1
RandomMinimizedData_init_shifted(f) ==
    /\ ~sampler.built
    /\ ctor = "none"
    /\ IF f < 0
       THEN /\ ctor' = "ValueError"
            /\ UNCHANGED <<dataset, sampler, builds, outcome, nested, rng, log, countVars, argVars, restVars>>
       ELSE \E s \in 1..(Min(f, MaxSeed) + 1) : minimize_dataset_init(f, s)

\* RandomMinimizedCIFAR10Data.__init__ and its four siblings: the seed is
\* random.randint(0, dataset_size), which raises ValueError on an empty range
RandomMinimizedData_init(f) ==
    /\ ~sampler.built
    /\ ctor = "none"
    /\ IF f < 0
       THEN /\ ctor' = "ValueError"
            /\ UNCHANGED <<dataset, sampler, builds, outcome, nested, rng, log, countVars, argVars, restVars>>
       ELSE \E s \in 0..Min(f, MaxSeed) : minimize_dataset_init(f, s)

\* lines 121-137 of __call__, on the dataset d that dataset_func returned: the
\* probe for the label list, the split, and the view of the selected indices
SubsampleBuilt(d) ==
    LET probe == ProbeTargets(d)
        sp    == TrainTestSplit(probe.targets, sampler.dataset_size)
        req   == <<probe.targets, sampler.dataset_size>>
    IN  IF probe.status # "ok"
        THEN /\ outcome' = [status |-> probe.status, msg |-> "no_labels", view |-> NoView]
             /\ UNCHANGED <<rng, log>>
        ELSE IF sp.status # "ok"
        THEN /\ outcome' = [status |-> sp.status, msg |-> sp.msg, view |-> NoView]
             /\ UNCHANGED <<rng, log>>
        ELSE \E idx \in RandomState(sampler.random_value, req, sp.choices) :
                /\ outcome' = [status |-> "ok", msg |-> "", view |-> Subset(d, idx)]
                /\ rng' = rng @@ (<<sampler.random_value, req>> :> idx)
                /\ log' = log \cup {[targets |-> probe.targets,
                                     dataset_size |-> sampler.dataset_size,
                                     random_value |-> sampler.random_value,
                                     indices |-> idx]}

\* a call that keeps its generator in the object: it leaves a new seed behind
minimize_dataset_call_reseeding ==
    /\ sampler.built
    /\ builds < MaxCalls
    /\ builds' = builds + 1
    /\ SubsampleBuilt(dataset)
    /\ sampler' = [sampler EXCEPT !.random_value = @ + 1]
    /\ UNCHANGED <<dataset, ctor, nested, countVars, argVars, restVars>>

\* minimize_dataset.__call__(**kwargs): dataset_func builds the dataset (line
\* 119), the rest of the call works on it
minimize_dataset_call ==
    /\ sampler.built
    /\ builds < MaxCalls
    /\ builds' = builds + 1
    /\ SubsampleBuilt(dataset)
    /\ UNCHANGED <<dataset, sampler, ctor, nested, countVars, argVars, restVars>>

\* minimize_dataset.__call__ of a second subsampler whose dataset_func returns the
\* view of the first: the view is the dataset it probes for targets and labels
nested_call ==
    /\ outcome.status = "ok"
    /\ nested = "none"
    /\ LET probe == ProbeTargets(outcome.view)
       IN  nested' = IF probe.status # "ok"
                     THEN probe.status
                     ELSE TrainTestSplit(probe.targets, sampler.dataset_size).status
    /\ UNCHANGED <<dataset, sampler, ctor, builds, outcome, rng, log, countVars, argVars, restVars>>

Next ==
    \/ \E f \in Fractions, s \in Seeds : minimize_dataset_init(f, s)
    \/ \E f \in Fractions : RandomMinimizedData_init(f)
    \/ minimize_dataset_call
    \/ nested_call

Spec == Init /\ [][Next]_vars

\* ------------------------------------- the call, seen on class counts

\* the fractions check_in_range lets through
CountFractions == 1..100

\* the class counts of the labelled datasets of SpecCounts: no class, one, two,
\* or two and a small third
CountVectors ==
    {<<>>} \cup {(0 :> a) : a \in 1..MaxCount}
           \cup {(0 :> a) @@ (1 :> b) : a \in 1..MaxCount, b \in 1..MaxCount}
           \cup {(0 :> a) @@ (1 :> b) @@ (2 :> c) :
                     a \in 1..MaxCount, b \in 1..MaxCount, c \in 1..MaxThird}

InitCounts ==
    /\ class_counts \in CountVectors
    /\ frac \in CountFractions
    /\ drawn = NoDrawn
    /\ IdleSubsampler
    /\ IdleArgs
    /\ IdleRest

\* minimize_dataset.__call__ on a labelled dataset with the class counts class_counts:
\* how the call ends and how many indices of every class it selects (which
\* indices, and in what order, is what Spec adds)
minimize_dataset_call_counts ==
    /\ drawn.status = "none"
    /\ LET sc == StratifiedCounts(class_counts, frac)
       IN  IF sc.status # "ok"
           THEN drawn' = [status |-> sc.status, msg |-> sc.msg, n_i |-> <<>>]
           ELSE \E m \in sc.modes : drawn' = [status |-> "ok", msg |-> "", n_i |-> m]
    /\ UNCHANGED <<class_counts, frac, subsVars, argVars, restVars>>

NextCounts == minimize_dataset_call_counts

SpecCounts == InitCounts /\ [][NextCounts]_vars

\* ------------------------------------------------------ check_in_range

\* A command line argument: a number (an int or a float object) or a string, with
\* its value in tenths. A string of a whole number is its integer numeral ("10"),
\* any other is a numeral with a decimal point ("10.5").
Args ==
    {[kind |-> k, tenths |-> t] : k \in {"number", "str"},
                                  t \in (0 - 10 * MaxArg)..(10 * MaxArg)}

\* int(value) is defined: int() of a string with a decimal point raises ValueError
IntDefined(a) == a.kind = "number" \/ a.tenths % 10 = 0

\* int(value): a float is truncated toward zero
IntOf(a) == IF a.tenths >= 0 THEN a.tenths \div 10 ELSE 0 - ((0 - a.tenths) \div 10)

\* check_in_range accepting 0 (0 <= ivalue for 0 < ivalue)
check_in_range_from_zero(a) ==
    IF ~IntDefined(a)
    THEN [status |-> "ValueError", ivalue |-> 0]
    ELSE IF ~(0 <= IntOf(a) /\ IntOf(a) <= 100)
    THEN [status |-> "ArgumentTypeError", ivalue |-> 0]
    ELSE [status |-> "ok", ivalue |-> IntOf(a)]

\* check_in_range(value)
check_in_range(a) ==
    IF ~IntDefined(a)
    THEN [status |-> "ValueError", ivalue |-> 0]
    ELSE IF ~(0 < IntOf(a) /\ IntOf(a) <= 100)
    THEN [status |-> "ArgumentTypeError", ivalue |-> 0]
    ELSE [status |-> "ok", ivalue |-> IntOf(a)]

InitArgs ==
    /\ argv \in Args
    /\ parsed = NoParsed
    /\ IdleSubsampler
    /\ IdleCounts
    /\ IdleRest

\* the argument parser applies check_in_range to the argument
parse_fraction ==
    /\ parsed.status = "none"
    /\ parsed' = check_in_range(argv)
    /\ UNCHANGED <<argv, subsVars, countVars, restVars>>

NextArgs == parse_fraction

SpecArgs == InitArgs /\ [][NextArgs]_vars

\* ------------------------------------- the minimized data modules

\* the dataset classes of all_datasets_minimized
MinimizedClasses == {"CIFAR10", "CIFAR100", "GroceryStore", "SVHN", "TinyImageNet"}

\* The attribute a dataset of the class holds its label list in: torchvision's
\* CIFAR10 and CIFAR100 have targets, its SVHN has labels; GroceryStore holds
\* samples_frame and TinyImageNet holds samples, neither has targets or labels.
ClassLabelAttr(cls) ==
    CASE cls \in {"CIFAR10", "CIFAR100"} -> "targets"
      [] cls = "SVHN" -> "labels"
      [] OTHER -> "none"

\* the dataset object of class cls over the stored label list y
DatasetOfClass(cls, y) ==
    IF ClassLabelAttr(cls) = "targets"
    THEN [items |-> Items(Len(y)), y |-> y, targets |-> y]
    ELSE IF ClassLabelAttr(cls) = "labels"
    THEN [items |-> Items(Len(y)), y |-> y, labels |-> y]
    ELSE [items |-> Items(Len(y)), y |-> y]

\* the label lists of the three parts of the data under root_dir
ModuleSources ==
    { [train |-> <<0, 0, 1, 1>>, val |-> <<0, 1, 0, 1>>, test |-> <<1, 1, 0, 0>>],
      [train |-> <<0, 0, 0>>, val |-> <<0, 0, 1, 1>>, test |-> <<0, 0>>] }

Loaders == {"train", "val", "test"}

NoKwargs == [root |-> "", key |-> "", value |-> "", transform |-> "", download |-> FALSE]

\* The keyword arguments the dataloader gives self.data_class. test_dataloader
\* returns self.val_dataloader() except in TinyImageNetData, which has a
\* dataloader of its own for mode="test"; TinyImageNetData passes download=True
\* for the train part only.
LoaderKwargs(cls, loader) ==
    LET l == IF loader = "test" /\ cls # "TinyImageNet" THEN "val" ELSE loader
    IN  [root      |-> "root_dir",
         key       |-> CASE cls \in {"CIFAR10", "CIFAR100"} -> "train"
                         [] cls \in {"GroceryStore", "SVHN"} -> "split"
                         [] OTHER -> "mode",
         value     |-> CASE cls \in {"CIFAR10", "CIFAR100"} ->
                                (IF l = "train" THEN "True" ELSE "False")
                         [] cls = "SVHN" -> (IF l = "train" THEN "train" ELSE "test")
                         [] OTHER -> l,
         transform |-> l,
         download  |-> (cls # "TinyImageNet" \/ l = "train")]

\* the part of the data the keyword arguments select
PartOf(kw) ==
    IF kw.value \in {"train", "True"} THEN "train"
    ELSE IF kw.key = "mode" /\ kw.value = "test" THEN "test"
    ELSE "val"

\* The dataset class called with the keyword arguments: with download=True the
\* data is fetched when root_dir is missing; without the data the constructor
\* raises RuntimeError; else the dataset over the selected part is built.
DatasetFunc(m, kw, d) ==
    LET after == IF kw.download /\ d = "absent" THEN "complete" ELSE d
    IN  IF after = "absent"
        THEN [status |-> "RuntimeError", disk |-> after, dataset |-> dataset]
        ELSE [status |-> "ok", disk |-> after,
              dataset |-> DatasetOfClass(m.name, m.source[PartOf(kw)])]

\* one step of a call, for the record in events
Event(op, loader, kw) ==
    [op |-> op, loader |-> loader, kw |-> kw, status |-> "",
     dataset_size |-> 0, random_value |-> 0, indices |-> <<>>]

\* a call that builds the dataset a second time when the probe failed
CallEventsRetrying(loader, kw, built, out) ==
    <<Event("call", loader, kw), Event("dataset_func", loader, kw)>>
    \o (IF built.status # "ok"
        THEN <<[Event("raise", loader, kw) EXCEPT !.status = built.status]>>
        ELSE <<Event("hasattr", loader, kw)>>
             \o (IF out.status = "NotImplementedError"
                 THEN <<Event("dataset_func", loader, kw), Event("hasattr", loader, kw),
                        [Event("raise", loader, kw) EXCEPT !.status = out.status]>>
                 ELSE <<[Event("train_test_split", loader, kw) EXCEPT
                            !.dataset_size = sampler.dataset_size,
                            !.random_value = sampler.random_value]>>
                      \o (IF out.status # "ok"
                          THEN <<[Event("raise", loader, kw) EXCEPT !.status = out.status]>>
                          ELSE <<[Event("return", loader, kw) EXCEPT
                                     !.indices = out.view.indices]>>)))

\* What a call does, in the order of __call__: dataset_func(**kwargs) at line
\* 119, then the hasattr probe (121-128) and its NotImplementedError, then
\* train_test_split with the stored fraction and seed (130-135), then the return
\* of the view (137). built is what dataset_func gave, out how the call ended.
CallEvents(loader, kw, built, out) ==
    <<Event("call", loader, kw), Event("dataset_func", loader, kw)>>
    \o (IF built.status # "ok"
        THEN <<[Event("raise", loader, kw) EXCEPT !.status = built.status]>>
        ELSE <<Event("hasattr", loader, kw)>>
             \o (IF out.status = "NotImplementedError"
                 THEN <<[Event("raise", loader, kw) EXCEPT !.status = out.status]>>
                 ELSE <<[Event("train_test_split", loader, kw) EXCEPT
                            !.dataset_size = sampler.dataset_size,
                            !.random_value = sampler.random_value]>>
                      \o (IF out.status # "ok"
                          THEN <<[Event("raise", loader, kw) EXCEPT !.status = out.status]>>
                          ELSE <<[Event("return", loader, kw) EXCEPT
                                     !.indices = out.view.indices]>>)))

\* the number of dataloader calls made so far
NumCalls == Cardinality({i \in DOMAIN events : events[i].op = "call"})

InitModule ==
    /\ data_module \in {[name |-> c, source |-> src] :
                            c \in MinimizedClasses, src \in ModuleSources}
    /\ disk \in {"absent", "complete"}
    /\ events = <<>>
    /\ IdleSubsampler
    /\ IdleCounts
    /\ IdleArgs
    /\ IdleRace
    /\ IdleTrain
    /\ IdleSweep
    /\ IdleLater

\* train_dataloader(), val_dataloader() or test_dataloader() of a
\* RandomMinimized*Data module: dataset = self.data_class(**kwargs), the call of
\* the subsampler made at construction, and the DataLoader over what it returns
dataloader(loader) ==
    /\ sampler.built
    /\ NumCalls < MaxLoads
    /\ LET kw    == LoaderKwargs(data_module.name, loader)
           built == DatasetFunc(data_module, kw, disk)
       IN  /\ builds' = builds + 1
           /\ disk' = built.disk
           /\ dataset' = built.dataset
           /\ IF built.status # "ok"
              THEN /\ outcome' = [status |-> built.status, msg |-> "not_found",
                                  view |-> NoView]
                   /\ UNCHANGED <<rng, log>>
              ELSE SubsampleBuilt(built.dataset)
           /\ events' = events \o CallEvents(loader, kw, built, outcome')
    /\ UNCHANGED <<data_module, sampler, ctor, nested, countVars, argVars, procs, trainVars, sweepVars, laterVars>>

\* the module is constructed by RandomMinimizedData_init
NextModule ==
    \/ \E f \in Fractions : RandomMinimizedData_init(f)
    \/ \E loader \in Loaders : dataloader(loader)

SpecModule == InitModule /\ [][NextModule]_vars

\* ------------------------- concurrent calls on one dataset directory

\* the dataset classes of src/ that fetch their data themselves
DownloadingClasses == {"GroceryStore", "TinyImageNet"}

Procs == 1..MaxProcs

\* how a call of the subsampler on the class ends in a process that runs alone,
\* whether root_dir is there before the call or not
AloneOutcome ==
    ProbeTargets(DatasetFunc(data_module,
                             LoaderKwargs(data_module.name, "train"),
                             "absent").dataset).status

InitRace ==
    /\ data_module \in {[name |-> c, source |-> src] :
                            c \in DownloadingClasses, src \in ModuleSources}
    /\ disk \in {"absent", "complete"}
    /\ procs = [p \in Procs |-> [pc |-> "start", result |-> ""]]
    /\ events = <<>>
    /\ IdleSubsampler
    /\ IdleCounts
    /\ IdleArgs
    /\ IdleTrain
    /\ IdleSweep
    /\ IdleLater

\* _download, first statement: if self._check_exists(): return
download_check(p) ==
    /\ procs[p].pc = "start"
    /\ procs' = [procs EXCEPT ![p].pc = IF disk # "absent" THEN "build" ELSE "fetch"]
    /\ UNCHANGED <<disk, data_module, events, subsVars, countVars, argVars, trainVars, sweepVars, laterVars>>

\* _download, second statement, as it starts. git clone tests its destination
\* before it writes anything: a missing directory it will make itself, an
\* empty one it takes as it is, any other fails the clone ("destination path
\* already exists and is not an empty directory"). download_and_extract_archive
\* makes root_dir if need be and writes into it whoever made it.
fetch_begin(p) ==
    /\ procs[p].pc = "fetch"
    /\ IF data_module.name = "TinyImageNet"
       THEN /\ disk' = "partial"
            /\ procs' = [procs EXCEPT ![p].pc = "writing"]
       ELSE /\ procs' = [procs EXCEPT ![p] =
                            CASE disk = "absent" -> [pc |-> "fetching", result |-> ""]
                              [] disk = "empty" -> [pc |-> "made", result |-> ""]
                              [] OTHER -> [pc |-> "done", result |-> "GitCommandError"]]
            /\ UNCHANGED disk
    /\ UNCHANGED <<data_module, events, subsVars, countVars, argVars, trainVars, sweepVars, laterVars>>

\* git clone that found no root_dir makes it: when another process has made
\* it in the meantime the clone fails at once ("could not create work tree
\* dir: File exists"), has written nothing and removes nothing
fetch_mkdir(p) ==
    /\ data_module.name = "GroceryStore"
    /\ procs[p].pc = "fetching"
    /\ IF disk = "absent"
       THEN /\ disk' = "empty"
            /\ procs' = [procs EXCEPT ![p].pc = "made"]
       ELSE /\ procs' = [procs EXCEPT ![p] = [pc |-> "done", result |-> "GitCommandError"]]
            /\ UNCHANGED disk
    /\ UNCHANGED <<data_module, events, subsVars, countVars, argVars, trainVars, sweepVars, laterVars>>

\* git clone starts to write into the root_dir it made or found empty; a
\* root_dir that another clone has written into, or is writing into, is one
\* the clones share ("clash")
fetch_write(p) ==
    /\ data_module.name = "GroceryStore"
    /\ procs[p].pc = "made"
    /\ disk' = IF disk \in {"absent", "empty"}
                  /\ ~\E q \in Procs \ {p} : procs[q].pc = "writing"
               THEN "partial"
               ELSE "clash"
    /\ procs' = [procs EXCEPT ![p].pc = "writing"]
    /\ UNCHANGED <<data_module, events, subsVars, countVars, argVars, trainVars, sweepVars, laterVars>>

\* what root_dir can be when the last of the clones that shared it has
\* failed: each failed clone removes what it takes for its own, root_dir too
\* when it made it, while the others were writing
AfterClash == {"absent", "empty", "partial", "complete"}

\* _download, second statement, as it ends. A clone that had root_dir to
\* itself leaves the data there. A clone that shared root_dir with another
\* returns normally or fails with GitCommandError (cannot copy ... File
\* exists, could not lock config file) and then removes what it can. An
\* extraction returns with the data all there unless another process is still
\* writing the same files; while another is, zipfile.extractall may also
\* raise FileExistsError on a directory the other has just made.
fetch_end(p) ==
    /\ procs[p].pc = "writing"
    /\ LET others == \E q \in Procs \ {p} : procs[q].pc = "writing"
       IN  IF data_module.name = "TinyImageNet"
           THEN \/ /\ disk' = IF others THEN "partial" ELSE "complete"
                   /\ procs' = [procs EXCEPT ![p].pc = "build"]
                \/ /\ others
                   /\ procs' = [procs EXCEPT ![p] =
                                    [pc |-> "done", result |-> "FileExistsError"]]
                   /\ UNCHANGED disk
           ELSE IF disk = "clash"
           THEN \/ /\ disk' = IF others THEN "clash" ELSE "complete"
                   /\ procs' = [procs EXCEPT ![p].pc = "build"]
                \/ /\ disk' \in (IF others THEN {"clash"} ELSE AfterClash)
                   /\ procs' = [procs EXCEPT ![p] =
                                    [pc |-> "done", result |-> "GitCommandError"]]
           ELSE /\ disk' = "complete"
                /\ procs' = [procs EXCEPT ![p].pc = "build"]
    /\ UNCHANGED <<data_module, events, subsVars, countVars, argVars, trainVars, sweepVars, laterVars>>

\* How reading the files under root_dir can fail while another process is
\* still writing them: open() on a file that is not there yet raises
\* FileNotFoundError; pd.read_csv on a train.txt that is there and still empty
\* raises EmptyDataError; TinyImageNetPaths on a wnids.txt, words.txt or
\* val_annotations.txt that is cut short raises ValueError (self.ids.index(nid)
\* of an id not read yet, or the unpacking of a line cut in the middle).
PartialReadErrors(cls) ==
    IF cls = "TinyImageNet"
    THEN {"FileNotFoundError", "ValueError"}
    ELSE {"FileNotFoundError", "EmptyDataError"}

\* The rest of the constructor and of __call__: RuntimeError when root_dir is
\* not there (any more), else the files of the split are read (while another
\* process is still writing them the read can fail, or finds what it needs
\* already there), then the built dataset is probed for its label list.
build_and_probe(p) ==
    /\ procs[p].pc = "build"
    /\ \E r \in (IF disk = "absent" THEN {"RuntimeError"}
                 ELSE IF disk = "empty" THEN {"FileNotFoundError"}
                 ELSE (IF disk \in {"partial", "clash"}
                       THEN PartialReadErrors(data_module.name) ELSE {})
                      \cup {ProbeTargets(DatasetOfClass(data_module.name,
                                                        data_module.source.train)).status}) :
          procs' = [procs EXCEPT ![p] = [pc |-> "done", result |-> r]]
    /\ UNCHANGED <<disk, data_module, events, subsVars, countVars, argVars, trainVars, sweepVars, laterVars>>

NextRace ==
    \E p \in Procs :
        \/ download_check(p)
        \/ fetch_begin(p)
        \/ fetch_mkdir(p)
        \/ fetch_write(p)
        \/ fetch_end(p)
        \/ build_and_probe(p)

SpecRace == InitRace /\ [][NextRace]_vars

\* ---------------------------------------------------------- TrainModule

RECURSIVE Gcd(_, _)
Gcd(a, b) == IF b = 0 THEN a ELSE Gcd(b, a % b)

\* the number n / d in lowest terms; den = 0 stands for a value that is not
\* defined (0 / 0)
Ratio(n, d) ==
    IF d = 0 THEN [num |-> 0, den |-> 0]
    ELSE [num |-> n \div Gcd(n, d), den |-> d \div Gcd(n, d)]

\* a > b for two defined numbers
Gt(a, b) == a.num * b.den > b.num * a.den

\* A batch as the metric sees it: how many samples it has and how many of them
\* the model predicts correctly.
Batches == {b \in [correct : 0..MaxBatch, size : 1..MaxBatch] : b.correct <= b.size}

NoCounts == [correct |-> 0, total |-> 0]

\* self.accuracy(predictions, labels): the metric adds the batch to its state
AccuracyUpdate(m, b) == [correct |-> m.correct + b.correct, total |-> m.total + b.size]

\* self.accuracy.compute() * 100: the accuracy over everything added to the
\* metric since its last reset, in percent
AccuracyCompute(m) == Ratio(100 * m.correct, m.total)

\* acc_max taking every new accuracy, whether higher or not
AccMaxLatest(acc_max, acc) == acc

\* lines 43-44: if acc > self.acc_max: self.acc_max = acc
AccMaxAfter(acc_max, acc) == IF Gt(acc, acc_max) THEN acc ELSE acc_max

NoValue == [num |-> 0, den |-> 0]

\* __init__: self.accuracy = Accuracy(), self.acc_max = 0; nothing logged yet
InitTrain ==
    /\ tm = [accuracy |-> NoCounts, acc_max |-> Ratio(0, 1)]
    /\ logged = [acc_train |-> NoValue, acc_val |-> NoValue, acc_max_val |-> NoValue,
                 acc_test |-> NoValue]
    /\ hist = [train |-> NoCounts, val |-> NoCounts, last_train |-> NoCounts,
               last_val |-> NoCounts, accs |-> {}, steps |-> 0]
    /\ IdleSubsampler
    /\ IdleCounts
    /\ IdleArgs
    /\ IdleModule
    /\ IdleRace
    /\ IdleSweep
    /\ IdleLater

\* A validation loop is running: validation_step was called and
\* validation_epoch_end has not yet followed. The framework runs the
\* validation steps of a loop and its validation_epoch_end without another hook
\* of this module in between.
Validating == hist.val.total > 0

\* training_step(batch, batch_nb): forward(batch), which updates self.accuracy
training_step(b) ==
    /\ hist.steps < MaxSteps
    /\ ~Validating
    /\ tm' = [tm EXCEPT !.accuracy = AccuracyUpdate(@, b)]
    /\ hist' = [hist EXCEPT !.train = AccuracyUpdate(@, b), !.steps = @ + 1]
    /\ UNCHANGED <<logged, subsVars, countVars, argVars, moduleVars, procs, sweepVars, laterVars>>

\* training_epoch_end(outs): logs acc/train = self.accuracy.compute() * 100 and
\* resets the metric
training_epoch_end ==
    /\ hist.steps < MaxSteps
    /\ ~Validating
    /\ logged' = [logged EXCEPT !.acc_train = AccuracyCompute(tm.accuracy)]
    /\ tm' = [tm EXCEPT !.accuracy = NoCounts]
    /\ hist' = [hist EXCEPT !.last_train = hist.train, !.train = NoCounts, !.steps = @ + 1]
    /\ UNCHANGED <<subsVars, countVars, argVars, moduleVars, procs, sweepVars, laterVars>>

\* validation_step(batch, batch_nb): forward(batch), which updates self.accuracy
validation_step(b) ==
    /\ hist.steps < MaxSteps
    /\ tm' = [tm EXCEPT !.accuracy = AccuracyUpdate(@, b)]
    /\ hist' = [hist EXCEPT !.val = AccuracyUpdate(@, b), !.steps = @ + 1]
    /\ UNCHANGED <<logged, subsVars, countVars, argVars, moduleVars, procs, sweepVars, laterVars>>

\* validation_epoch_end(outs): acc = self.accuracy.compute() * 100, acc_max is
\* raised to it, acc_max/val and acc/val are logged, and the metric is reset
validation_epoch_end ==
    /\ hist.steps < MaxSteps
    /\ Validating
    /\ LET acc == AccuracyCompute(tm.accuracy)
       IN  /\ tm' = [accuracy |-> NoCounts, acc_max |-> AccMaxAfter(tm.acc_max, acc)]
           /\ logged' = [logged EXCEPT !.acc_max_val = AccMaxAfter(tm.acc_max, acc),
                                       !.acc_val = acc]
           /\ hist' = [hist EXCEPT !.last_val = hist.val, !.val = NoCounts,
                                   !.accs = @ \cup {acc}, !.steps = @ + 1]
    /\ UNCHANGED <<subsVars, countVars, argVars, moduleVars, procs, sweepVars, laterVars>>

\* test_step(batch, batch_nb): forward(batch), which updates self.accuracy and
\* gives the accuracy of the batch, logged as acc/test; the metric is not reset
test_step(b) ==
    /\ hist.steps < MaxSteps
    /\ ~Validating
    /\ tm' = [tm EXCEPT !.accuracy = AccuracyUpdate(@, b)]
    /\ logged' = [logged EXCEPT !.acc_test = Ratio(100 * b.correct, b.size)]
    /\ hist' = [hist EXCEPT !.steps = @ + 1]
    /\ UNCHANGED <<subsVars, countVars, argVars, moduleVars, procs, sweepVars, laterVars>>

NextTrain ==
    \/ \E b \in Batches : training_step(b)
    \/ training_epoch_end
    \/ \E b \in Batches : validation_step(b)
    \/ validation_epoch_end
    \/ \E b \in Batches : test_step(b)

SpecTrain == InitTrain /\ [][NextTrain]_vars

\* ------------------------------------------------- wandb_sweep: main

DatasetNames == {"cifar10", "svhn"}

ModelNames == {"resnet18", "vgg11"}

\* the entries of setup['checkpoint_inputs']
CheckpointInputs ==
    [dataset_trained_on : DatasetNames, version : {0, 1}] \
        {[dataset_trained_on |-> "svhn", version |-> 1]}

\* the lists of a configuration file: up to n entries of S, none of them twice
DistinctSeqs(S, n) == {q \in SeqsUpTo(S, n) : Cardinality(Range(q)) = Len(q)}

\* the checkpoint file the glob pattern of lines 50-54 matches:
\* output_dir/<dataset_trained_on>/<model>/version_<version>/checkpoints/*.ckpt
CheckpointFile(model, checkpoint) ==
    <<"output_dir", checkpoint.dataset_trained_on, model, checkpoint.version>>

AllCheckpointFiles == {CheckpointFile(m, c) : m \in ModelNames, c \in CheckpointInputs}

\* wandb_config['project_format_string'].format(dataset=dataset)
ProjectName(ds) == <<"project", ds>>

\* sweep_name = f"{model}{checkpoint['dataset_trained_on']}"
SweepName(model, checkpoint) == <<model, checkpoint.dataset_trained_on>>

\* save_folder = sweep_dir/project_name/model
SaveFolder(ds, model) == <<"sweep_dir", ProjectName(ds), model>>

\* os.path.join(save_folder, f"{sweep_name}.py")
ScriptPath(ds, model, checkpoint) ==
    <<SaveFolder(ds, model), SweepName(model, checkpoint)>>

InitSweep ==
    /\ config \in [has_file : BOOLEAN,
                   data_parent : BOOLEAN,
                   output_parent : BOOLEAN,
                   datasets : DistinctSeqs(DatasetNames, MaxList),
                   models : DistinctSeqs(ModelNames, MaxList),
                   checkpoint_inputs : DistinctSeqs(CheckpointInputs, MaxList),
                   ckpt_files : {AllCheckpointFiles} \cup
                                {AllCheckpointFiles \ {x} : x \in AllCheckpointFiles}]
    /\ sweep = [pc |-> "start", i |-> 0, j |-> 0, k |-> 0]
    /\ world = [dirs |-> {}, scripts |-> <<>>, sweeps |-> <<>>, commands |-> <<>>,
                ops |-> <<>>]
    /\ IdleSubsampler
    /\ IdleCounts
    /\ IdleArgs
    /\ IdleModule
    /\ IdleRace
    /\ IdleTrain
    /\ IdleLater

\* where main goes on after the dataset at i has begun or a triple is done:
\* the next checkpoint, else the next model, else the next dataset, else the end
AfterDatasetBegin(i) ==
    IF Len(config.models) > 0 /\ Len(config.checkpoint_inputs) > 0
    THEN [pc |-> "triple", i |-> i, j |-> 1, k |-> 1]
    ELSE IF i < Len(config.datasets)
    THEN [pc |-> "dataset", i |-> i + 1, j |-> 0, k |-> 0]
    ELSE [pc |-> "done", i |-> i, j |-> 0, k |-> 0]

AfterTriple(i, j, k) ==
    IF k < Len(config.checkpoint_inputs) THEN [pc |-> "triple", i |-> i, j |-> j, k |-> k + 1]
    ELSE IF j < Len(config.models) THEN [pc |-> "triple", i |-> i, j |-> j + 1, k |-> 1]
    ELSE IF i < Len(config.datasets) THEN [pc |-> "dataset", i |-> i + 1, j |-> 0, k |-> 0]
    ELSE [pc |-> "done", i |-> i, j |-> 0, k |-> 0]

\* lines 13-32: without a configuration_file FileNotFoundError is raised; else
\* the configuration is read and data_dir, then output_dir, is made with
\* os.mkdir, which raises FileNotFoundError when the parent directory is missing
main_begin ==
    /\ sweep.pc = "start"
    /\ IF ~config.has_file \/ ~config.data_parent
       THEN /\ sweep' = [sweep EXCEPT !.pc = "FileNotFoundError"]
            /\ UNCHANGED world
       ELSE IF ~config.output_parent
       THEN /\ sweep' = [sweep EXCEPT !.pc = "FileNotFoundError"]
            /\ world' = [world EXCEPT !.dirs = @ \cup {<<"data_dir">>}]
       ELSE /\ world' = [world EXCEPT !.dirs = @ \cup {<<"data_dir">>, <<"output_dir">>}]
            /\ sweep' = IF Len(config.datasets) > 0
                        THEN [pc |-> "dataset", i |-> 1, j |-> 0, k |-> 0]
                        ELSE [pc |-> "done", i |-> 0, j |-> 0, k |-> 0]
    /\ UNCHANGED <<config, subsVars, countVars, argVars, moduleVars, procs, trainVars, laterVars>>

\* lines 34-37: the loop over the datasets makes the directory of the project
dataset_begin ==
    /\ sweep.pc = "dataset"
    /\ world' = [world EXCEPT
                    !.dirs = @ \cup {<<"sweep_dir", ProjectName(config.datasets[sweep.i])>>}]
    /\ sweep' = AfterDatasetBegin(sweep.i)
    /\ UNCHANGED <<config, subsVars, countVars, argVars, moduleVars, procs, trainVars, laterVars>>

\* a loop body that writes the script, registers the sweep and appends the
\* command line before the checkpoint is looked up
triple_writing_before_lookup ==
    /\ sweep.pc = "triple"
    /\ LET ds         == config.datasets[sweep.i]
           model      == config.models[sweep.j]
           checkpoint == config.checkpoint_inputs[sweep.k]
           t          == <<sweep.i, sweep.j, sweep.k>>
           path       == ScriptPath(ds, model, checkpoint)
       IN  /\ sweep' = IF CheckpointFile(model, checkpoint) \notin config.ckpt_files
                       THEN [sweep EXCEPT !.pc = "IndexError"]
                       ELSE AfterTriple(sweep.i, sweep.j, sweep.k)
           /\ world' =
                 [dirs |-> world.dirs \cup {SaveFolder(ds, model)},
                  scripts |-> [q \in DOMAIN world.scripts \cup {path} |->
                                  IF q = path
                                  THEN [classifier |-> model, dataset |-> ds,
                                        load_checkpoint |-> CheckpointFile(model, checkpoint)]
                                  ELSE world.scripts[q]],
                  sweeps |-> Append(world.sweeps,
                                    [name |-> SweepName(model, checkpoint),
                                     program |-> path,
                                     project |-> ProjectName(ds)]),
                  commands |-> Append(world.commands,
                                      [project |-> ProjectName(ds),
                                       sweep_id |-> Len(world.sweeps) + 1, model |-> model]),
                  ops |-> world.ops \o <<[op |-> "write", t |-> t],
                                         [op |-> "sweep", t |-> t],
                                         [op |-> "append", t |-> t]>>]
    /\ UNCHANGED <<config, subsVars, countVars, argVars, moduleVars, procs, trainVars, laterVars>>

\* lines 40-77, the body of the innermost loop: the save folder is made, the
\* checkpoint looked up (IndexError when the glob matches nothing), the script
\* written, the sweep registered and the agent command line appended
triple ==
    /\ sweep.pc = "triple"
    /\ LET ds         == config.datasets[sweep.i]
           model      == config.models[sweep.j]
           checkpoint == config.checkpoint_inputs[sweep.k]
           t          == <<sweep.i, sweep.j, sweep.k>>
           path       == ScriptPath(ds, model, checkpoint)
           made       == world.dirs \cup {SaveFolder(ds, model)}
           sweep_id   == Len(world.sweeps) + 1
       IN  IF CheckpointFile(model, checkpoint) \notin config.ckpt_files
           THEN /\ sweep' = [sweep EXCEPT !.pc = "IndexError"]
                /\ world' = [world EXCEPT !.dirs = made]
           ELSE /\ sweep' = AfterTriple(sweep.i, sweep.j, sweep.k)
                /\ world' =
                     [dirs |-> made,
                      scripts |-> [q \in DOMAIN world.scripts \cup {path} |->
                                      IF q = path
                                      THEN [classifier |-> model, dataset |-> ds,
                                            load_checkpoint |-> CheckpointFile(model, checkpoint)]
                                      ELSE world.scripts[q]],
                      sweeps |-> Append(world.sweeps,
                                        [name |-> SweepName(model, checkpoint),
                                         program |-> path,
                                         project |-> ProjectName(ds)]),
                      commands |-> Append(world.commands,
                                          [project |-> ProjectName(ds),
                                           sweep_id |-> sweep_id, model |-> model]),
                      ops |-> world.ops \o <<[op |-> "write", t |-> t],
                                             [op |-> "sweep", t |-> t],
                                             [op |-> "append", t |-> t]>>]
    /\ UNCHANGED <<config, subsVars, countVars, argVars, moduleVars, procs, trainVars, laterVars>>

NextSweep ==
    \/ main_begin
    \/ dataset_begin
    \/ triple

SpecSweep == InitSweep /\ [][NextSweep]_vars

\* ------------------------------ the data modules that split by position

\* the data modules that hold out the first valid_size = 0.15 of the dataset
SplitModules ==
    {"HistAerial25x25Data", "HistAerial50x50Data", "HistAerial100x100Data",
     "FractalDB60Data", "SUN397Data"}

\* indices = list(range(num_train))
IndexList(n) == [p \in 1..n |-> p - 1]

\* split = int(np.floor(self.valid_size * num_train)); for every length below
\* 2000 the double product 0.15 * n has the floor of 15 * n / 100
ValidSplit(n) == (15 * n) \div 100

\* a training sampler over all of indices
TrainIdxAll(n) == IndexList(n)

\* train_idx = indices[split:]
TrainIdx(n) == SubSeq(IndexList(n), ValidSplit(n) + 1, n)

\* valid_idx = indices[:split]
ValidIdx(n) == SubSeq(IndexList(n), 1, ValidSplit(n))

NoIndices == [built |-> FALSE, indices |-> <<>>]

\* an ImageFolder over no file raises, so a dataset has one item at least
InitSplit ==
    /\ split_module \in [name : SplitModules, n : 1..MaxItems]
    /\ samplers = [train |-> NoIndices, val |-> NoIndices, test |-> NoIndices]
    /\ IdleSubsampler
    /\ IdleCounts
    /\ IdleArgs
    /\ IdleModule
    /\ IdleRace
    /\ IdleTrain
    /\ IdleSweep
    /\ IdleFetch
    /\ IdleCinic

\* train_dataloader(): SubsetRandomSampler(train_idx) over the dataset
split_train_dataloader ==
    /\ samplers' = [samplers EXCEPT
                       !.train = [built |-> TRUE, indices |-> TrainIdx(split_module.n)]]
    /\ UNCHANGED <<split_module, subsVars, countVars, argVars, moduleVars, procs,
                   trainVars, sweepVars, fetchVars, cinicVars>>

\* val_dataloader(): SubsetRandomSampler(valid_idx) over the dataset
split_val_dataloader ==
    /\ samplers' = [samplers EXCEPT
                       !.val = [built |-> TRUE, indices |-> ValidIdx(split_module.n)]]
    /\ UNCHANGED <<split_module, subsVars, countVars, argVars, moduleVars, procs,
                   trainVars, sweepVars, fetchVars, cinicVars>>

\* test_dataloader(): return self.val_dataloader()
split_test_dataloader ==
    /\ samplers' = [samplers EXCEPT
                       !.test = [built |-> TRUE, indices |-> ValidIdx(split_module.n)]]
    /\ UNCHANGED <<split_module, subsVars, countVars, argVars, moduleVars, procs,
                   trainVars, sweepVars, fetchVars, cinicVars>>

NextSplit ==
    \/ split_train_dataloader
    \/ split_val_dataloader
    \/ split_test_dataloader

SpecSplit == InitSplit /\ [][NextSplit]_vars

\* ------------------------------------- the dataset classes that download

\* the dataset classes of data/__init__.py that fetch their own data
FetchClasses == {"GroceryStore", "HistAerial", "FractalDB60", "TinyImageNet"}

\* root on the file system: missing, a directory without the data, or the data
RootStates == {"absent", "empty", "data"}

\* _check_exists(): os.path.exists(self.root)
CheckExists(root) == root # "absent"

\* a _download that fetches without looking at root first
DownloadAlways(root) == [root |-> "data", fetched |-> TRUE]

\* _download(): return when root exists, else fetch the data into root
Download(root) ==
    IF CheckExists(root)
    THEN [root |-> root, fetched |-> FALSE]
    ELSE [root |-> "data", fetched |-> TRUE]

\* __init__(root, ..., download): _download() when download is set, RuntimeError
\* when root does not exist after that, then the files under root are read,
\* which fails when they are not there.
DatasetInit(root, download) ==
    LET d == IF download THEN Download(root) ELSE [root |-> root, fetched |-> FALSE]
    IN  [root    |-> d.root,
         fetched |-> d.fetched,
         status  |-> IF ~CheckExists(d.root) THEN "RuntimeError"
                     ELSE IF d.root = "empty" THEN "FileNotFoundError"
                     ELSE "ok"]

\* the record of one construction, for constructions
Construction(by, loader, download, before, res) ==
    [by |-> by, loader |-> loader, download |-> download, before |-> before,
     status |-> res.status, fetched |-> res.fetched]

InitFetch ==
    /\ fetch \in [cls : FetchClasses, root : RootStates, downloads : {0}]
    /\ constructions = <<>>
    /\ IdleSubsampler
    /\ IdleCounts
    /\ IdleArgs
    /\ IdleModule
    /\ IdleRace
    /\ IdleTrain
    /\ IdleSweep
    /\ IdleSplit
    /\ IdleCinic

\* the dataset class constructed on root, with or without download
dataset_init(download) ==
    /\ Len(constructions) < MaxMade
    /\ LET res == DatasetInit(fetch.root, download)
       IN  /\ fetch' = [fetch EXCEPT !.root = res.root,
                                     !.downloads = @ + (IF res.fetched THEN 1 ELSE 0)]
           /\ constructions' = Append(constructions,
                                      Construction("caller", "", download, fetch.root, res))
    /\ UNCHANGED <<subsVars, countVars, argVars, moduleVars, procs, trainVars,
                   sweepVars, splitVars, cinicVars>>

\* TinyImageNetData.train_dataloader, val_dataloader or test_dataloader: the
\* dataset is constructed with the keyword arguments of that dataloader
tiny_dataloader(loader) ==
    /\ fetch.cls = "TinyImageNet"
    /\ Len(constructions) < MaxMade
    /\ LET kw  == LoaderKwargs("TinyImageNet", loader)
           res == DatasetInit(fetch.root, kw.download)
       IN  /\ fetch' = [fetch EXCEPT !.root = res.root,
                                     !.downloads = @ + (IF res.fetched THEN 1 ELSE 0)]
           /\ constructions' = Append(constructions, Construction("TinyImageNetData", loader,
                                                kw.download, fetch.root, res))
    /\ UNCHANGED <<subsVars, countVars, argVars, moduleVars, procs, trainVars,
                   sweepVars, splitVars, cinicVars>>

NextFetch ==
    \/ \E download \in BOOLEAN : dataset_init(download)
    \/ \E loader \in Loaders : tiny_dataloader(loader)

SpecFetch == InitFetch /\ [][NextFetch]_vars

\* ------------------------------------------------- the parts of CINIC10

\* a path is the sequence of its characters
Cifar10Prefix == <<"c", "i", "f", "a", "r", "1", "0", "-">>

\* files that may lie under root_dir/train, root_dir being "d"
TrainPool ==
    { \* d/train/cat/cifar10-1.png
      <<"d", "/", "t", "r", "a", "i", "n", "/", "c", "a", "t", "/", "c", "i", "f", "a", "r", "1", "0", "-", "1", ".", "p", "n", "g">>,
      \* d/train/cat/n1.png
      <<"d", "/", "t", "r", "a", "i", "n", "/", "c", "a", "t", "/", "n", "1", ".", "p", "n", "g">>,
      \* d/train/dog/cifar10.png
      <<"d", "/", "t", "r", "a", "i", "n", "/", "d", "o", "g", "/", "c", "i", "f", "a", "r", "1", "0", ".", "p", "n", "g">>,
      \* d/train/dog/xcifar10-1.png
      <<"d", "/", "t", "r", "a", "i", "n", "/", "d", "o", "g", "/", "x", "c", "i", "f", "a", "r", "1", "0", "-", "1", ".", "p", "n", "g">>,
      \* d/train/dog/cifar10-x/n2.png
      <<"d", "/", "t", "r", "a", "i", "n", "/", "d", "o", "g", "/", "c", "i", "f", "a", "r", "1", "0", "-", "x", "/", "n", "2", ".", "p", "n", "g">>,
      \* d/train/cat/cifar10-a.txt
      <<"d", "/", "t", "r", "a", "i", "n", "/", "c", "a", "t", "/", "c", "i", "f", "a", "r", "1", "0", "-", "a", ".", "t", "x", "t">>,
      \* d/train/dog/CIFAR10-1.png
      <<"d", "/", "t", "r", "a", "i", "n", "/", "d", "o", "g", "/", "C", "I", "F", "A", "R", "1", "0", "-", "1", ".", "p", "n", "g">> }

\* files that may lie under root_dir/valid
ValidPool ==
    { \* d/valid/cat/cifar10-1.png
      <<"d", "/", "v", "a", "l", "i", "d", "/", "c", "a", "t", "/", "c", "i", "f", "a", "r", "1", "0", "-", "1", ".", "p", "n", "g">>,
      \* d/valid/cat/n1.PNG
      <<"d", "/", "v", "a", "l", "i", "d", "/", "c", "a", "t", "/", "n", "1", ".", "P", "N", "G">>,
      \* d/valid/dog/n2.txt
      <<"d", "/", "v", "a", "l", "i", "d", "/", "d", "o", "g", "/", "n", "2", ".", "t", "x", "t">> }

CinicParts == {"all", "imagenet", "cifar10"}

\* the positions of "/" in the path
SlashPositions(path) == {i \in DOMAIN path : path[i] = "/"}

\* os.path.basename(path): what follows the last "/"
Basename(path) ==
    LET last == IF SlashPositions(path) = {} THEN 0
                ELSE CHOOSE i \in SlashPositions(path) :
                         \A j \in SlashPositions(path) : j <= i
    IN  SubSeq(path, last + 1, Len(path))

\* s.startswith(prefix)
StartsWith(s, prefix) ==
    Len(s) >= Len(prefix) /\ SubSeq(s, 1, Len(prefix)) = prefix

\* s.endswith(suffix)
EndsWith(s, suffix) ==
    Len(s) >= Len(suffix) /\ SubSeq(s, Len(s) - Len(suffix) + 1, Len(s)) = suffix

\* str.lower() on the letters that occur in the pools
Lower(s) ==
    [i \in DOMAIN s |->
        CASE s[i] = "C" -> "c" [] s[i] = "I" -> "i" [] s[i] = "F" -> "f"
          [] s[i] = "A" -> "a" [] s[i] = "R" -> "r" [] s[i] = "P" -> "p"
          [] s[i] = "N" -> "n" [] s[i] = "G" -> "g" [] OTHER -> s[i]]

\* a filter that looks at the whole path, not at the base name
is_valid_file_whole_path(part, path) ==
    \/ part = "all"
    \/ part = "imagenet" /\ ~StartsWith(path, Cifar10Prefix)
    \/ part = "cifar10" /\ StartsWith(path, Cifar10Prefix)

\* the lambda given to ImageFolder as is_valid_file in train_dataloader
is_valid_file(part, path) ==
    \/ part = "all"
    \/ part = "imagenet" /\ ~StartsWith(Basename(path), Cifar10Prefix)
    \/ part = "cifar10" /\ StartsWith(Basename(path), Cifar10Prefix)

\* ImageFolder without is_valid_file: has_file_allowed_extension(path,
\* IMG_EXTENSIONS), which is path.lower().endswith(IMG_EXTENSIONS)
IMG_EXTENSIONS ==
    { <<".", "j", "p", "g">>, <<".", "j", "p", "e", "g">>, <<".", "p", "n", "g">>,
      <<".", "p", "p", "m">>, <<".", "b", "m", "p">>, <<".", "p", "g", "m">>,
      <<".", "t", "i", "f">>, <<".", "t", "i", "f", "f">>, <<".", "w", "e", "b", "p">> }

IsImageFile(path) == \E ext \in IMG_EXTENSIONS : EndsWith(Lower(path), ext)

\* the files of the training dataset of a module with that part
TrainFiles(part, files) == {f \in files : is_valid_file(part, f)}

\* the files of the validation dataset
ValidFiles(files) == {f \in files : IsImageFile(f)}

\* the class of a file: the directory under root_dir/train or root_dir/valid
ClassOf(path) ==
    LET second == CHOOSE i \in SlashPositions(path) :
                      Cardinality({j \in SlashPositions(path) : j < i}) = 1
        third  == CHOOSE i \in SlashPositions(path) :
                      Cardinality({j \in SlashPositions(path) : j < i}) = 2
    IN  SubSeq(path, second + 1, third - 1)

\* How ImageFolder ends on the files it accepted of those on disk. torchvision
\* from 0.10 raises FileNotFoundError when a class directory holds no accepted
\* file (strict); before that, RuntimeError when no file at all was accepted.
ImageFolder(accepted, files, strict) ==
    LET empty == {ClassOf(f) : f \in files} \ {ClassOf(f) : f \in accepted}
    IN  IF strict /\ empty # {} THEN [status |-> "FileNotFoundError", files |-> {}]
        ELSE IF accepted = {} THEN [status |-> "RuntimeError", files |-> {}]
        ELSE [status |-> "ok", files |-> accepted]

NotListed == [status |-> "none", files |-> {}]

\* the subsets of S with one element at least and MaxFiles at most
SomeOf(S) == {T \in SUBSET S : T # {} /\ Cardinality(T) <= MaxFiles}

InitCinic ==
    /\ cinic \in [part : CinicParts, train : SomeOf(TrainPool), valid : SomeOf(ValidPool)]
    /\ listed = [train |-> NotListed, val |-> NotListed, test |-> NotListed]
    /\ IdleSubsampler
    /\ IdleCounts
    /\ IdleArgs
    /\ IdleModule
    /\ IdleRace
    /\ IdleTrain
    /\ IdleSweep
    /\ IdleSplit
    /\ IdleFetch

\* train_dataloader(): ImageFolder over root_dir/train with is_valid_file
cinic_train_dataloader(strict) ==
    /\ listed' = [listed EXCEPT !.train =
                      ImageFolder(TrainFiles(cinic.part, cinic.train), cinic.train, strict)]
    /\ UNCHANGED <<cinic, subsVars, countVars, argVars, moduleVars, procs, trainVars,
                   sweepVars, splitVars, fetchVars>>

\* val_dataloader(): ImageFolder over root_dir/valid
cinic_val_dataloader(strict) ==
    /\ listed' = [listed EXCEPT !.val =
                      ImageFolder(ValidFiles(cinic.valid), cinic.valid, strict)]
    /\ UNCHANGED <<cinic, subsVars, countVars, argVars, moduleVars, procs, trainVars,
                   sweepVars, splitVars, fetchVars>>

\* test_dataloader(): return self.val_dataloader()
cinic_test_dataloader(strict) ==
    /\ listed' = [listed EXCEPT !.test =
                      ImageFolder(ValidFiles(cinic.valid), cinic.valid, strict)]
    /\ UNCHANGED <<cinic, subsVars, countVars, argVars, moduleVars, procs, trainVars,
                   sweepVars, splitVars, fetchVars>>

NextCinic ==
    \/ \E strict \in BOOLEAN : cinic_train_dataloader(strict)
    \/ \E strict \in BOOLEAN : cinic_val_dataloader(strict)
    \/ \E strict \in BOOLEAN : cinic_test_dataloader(strict)

SpecCinic == InitCinic /\ [][NextCinic]_vars

\* ------------------------------------------------------------- claims

Abs(x) == IF x < 0 THEN 0 - x ELSE x

\* the object exposes a label list
Labelled(obj) == "targets" \in DOMAIN obj \/ "labels" \in DOMAIN obj

\* SpecCounts: len(D), and the number of indices the call selected
NumItems == SumOver(class_counts, DOMAIN class_counts)
NumSelected == SumOver(drawn.n_i, DOMAIN drawn.n_i)

\* C1 (as claimed): a returned subset has exactly floor(f / 100 * len(D)) elements,
\* f * len(D) / 100 rounded down.
C1_SizeIsFloor ==
    drawn.status = "ok" => NumSelected = (frac * NumItems) \div 100

\* C2: calls with the same label list, the same fraction and the same seed have
\* all selected the same index sequence, however often the call was repeated.
C2_Deterministic ==
    \A a \in log : \A b \in log :
        (a.targets = b.targets /\ a.dataset_size = b.dataset_size
            /\ a.random_value = b.random_value) => a.indices = b.indices

\* C2 witness: the same subsampler was called twice and returned a subset of
\* several indices both times.
C2_Witness ==
    /\ builds = 2
    /\ outcome.status = "ok"
    /\ Len(outcome.view.indices) >= 2
    /\ Cardinality(log) = 1

\* C3 (as claimed): the number selected of every class is within 1 of
\* f / 100 times the size of the class.
C3_WithinOneOfFraction ==
    drawn.status = "ok" =>
        \A c \in DOMAIN class_counts :
            Abs(100 * drawn.n_i[c] - frac * class_counts[c]) <= 100

\* C3 (amended): the number selected of every class is less than 1 away from
\* len(subset) / len(D) times the size of the class, and less than 2 away from
\* f / 100 times the size of the class; two classes of 50 at f = 10 give 5 each.
C3_Stratified ==
    drawn.status = "ok" =>
        /\ \A c \in DOMAIN class_counts :
              /\ Abs(drawn.n_i[c] * NumItems - class_counts[c] * NumSelected) < NumItems
              /\ Abs(100 * drawn.n_i[c] - frac * class_counts[c]) < 200
        /\ (class_counts = (0 :> 50) @@ (1 :> 50) /\ frac = 10)
              => drawn.n_i = (0 :> 5) @@ (1 :> 5)

\* C3 witness: 100 items in two classes of 50, f = 10, 5 selected of each class.
C3_Witness ==
    /\ drawn.status = "ok"
    /\ class_counts = (0 :> 50) @@ (1 :> 50)
    /\ frac = 10
    /\ drawn.n_i = (0 :> 5) @@ (1 :> 5)

\* C4 (as claimed): at fraction 100 a call on a labelled dataset (here: of four
\* items or more) succeeds and its indices are 0..len(D)-1, each exactly once.
C4_FullAt100 ==
    (builds > 0 /\ Labelled(dataset) /\ DatasetLen(dataset) >= 4
        /\ sampler.dataset_size = 100) =>
        /\ outcome.status = "ok"
        /\ Len(outcome.view.indices) = DatasetLen(dataset)
        /\ Range(outcome.view.indices) = 0..(DatasetLen(dataset) - 1)

\* C5 (as claimed): a call on a dataset with neither targets nor labels fails with
\* ConfigurationError and returns no subset.
C5_ConfigurationError ==
    (builds > 0 /\ ~Labelled(dataset)) =>
        outcome.status = "ConfigurationError" /\ outcome.view = NoView

\* C5 (amended): a call on a dataset with neither targets nor labels fails with
\* NotImplementedError and returns no subset.
C5_NotImplementedError ==
    (builds > 0 /\ ~Labelled(dataset)) =>
        outcome.status = "NotImplementedError" /\ outcome.view = NoView /\ log = {}

\* C5 witness: a call on a non-empty dataset without label attributes has failed.
C5_Witness ==
    /\ builds > 0
    /\ ~Labelled(dataset)
    /\ DatasetLen(dataset) >= 4
    /\ sampler.dataset_size = 50
    /\ outcome.status = "NotImplementedError"

\* C6 (as claimed): construction rejects a fraction outside (0, 100], so no
\* subsampler exists with one.
C6_RejectedAtConstruction ==
    sampler.built => (0 < sampler.dataset_size /\ sampler.dataset_size <= 100)

\* C6 (amended): a subsampler constructed with a fraction outside (0, 100] exists;
\* every call of it fails after it has built the dataset and returns no subset:
\* with ValueError from the split's train_size validation when the dataset has
\* targets or labels, with NotImplementedError when it has neither.
C6_RejectedByCall ==
    (outcome.status # "none"
        /\ (sampler.dataset_size <= 0 \/ sampler.dataset_size > 100)) =>
        /\ builds >= 1
        /\ outcome.view = NoView
        /\ log = {}
        /\ IF Labelled(dataset)
           THEN outcome.status = "ValueError" /\ outcome.msg = "train_size"
           ELSE outcome.status = "NotImplementedError"

\* C6 witness: a subsampler was constructed with fraction 0 and its call on a
\* labelled dataset failed once the dataset was built.
C6_Witness ==
    /\ sampler.built
    /\ ctor = "ok"
    /\ sampler.dataset_size = 0
    /\ Labelled(dataset)
    /\ DatasetLen(dataset) >= 4
    /\ builds = 1
    /\ outcome.status = "ValueError"

\* the integer an argument stands for: its value with the fraction cut off
Truncated(a) ==
    CHOOSE v \in (0 - MaxArg)..MaxArg :
        \/ a.tenths >= 0 /\ 10 * v <= a.tenths /\ a.tenths < 10 * v + 10
        \/ a.tenths < 0 /\ 10 * v >= a.tenths /\ a.tenths > 10 * v - 10

\* C7: for an argument that has an integer value v, check_in_range returns v when
\* 1 <= v <= 100 and raises its validation error when v <= 0 or v > 100; it never
\* returns a value outside 1..100.
C7_CheckInRange ==
    /\ (parsed.status # "none" /\ (argv.kind = "number" \/ argv.tenths % 10 = 0)) =>
          IF 1 <= Truncated(argv) /\ Truncated(argv) <= 100
          THEN parsed.status = "ok" /\ parsed.ivalue = Truncated(argv)
          ELSE parsed.status = "ArgumentTypeError"
    /\ parsed.status = "ok" => parsed.ivalue \in 1..100

\* C7 witness: the float 100.9 was accepted as 100.
C7_Witness ==
    /\ argv = [kind |-> "number", tenths |-> 1009]
    /\ parsed = [status |-> "ok", ivalue |-> 100]

\* C8: the returned view is as long as the sequence of selected indices, and its
\* element i is the (item, label) pair the dataset holds at the i-th of them.
C8_ViewPairs ==
    outcome.status = "ok" =>
        \E e \in log :
            /\ e.random_value = sampler.random_value
            /\ SubsetLen(outcome.view) = Len(e.indices)
            /\ \A i \in 0..(Len(e.indices) - 1) :
                  SubsetGetItem(outcome.view, i)
                      = <<dataset.items[e.indices[i + 1] + 1], dataset.y[e.indices[i + 1] + 1]>>

\* C8 witness: a view of two indices in descending order over a dataset with both
\* labels, whose first element is the pair at the larger index.
C8_Witness ==
    /\ outcome.status = "ok"
    /\ dataset.y = <<0, 0, 1, 1>>
    /\ outcome.view.indices = <<3, 0>>
    /\ SubsetGetItem(outcome.view, 0) = <<<<"img", 3>>, 1>>
    /\ SubsetGetItem(outcome.view, 1) = <<<<"img", 0>>, 0>>

\* C9 (as claimed): when some class has fewer than 100 / f members (and the
\* dataset as a whole has 100 / f or more) the call still returns a subset, and
\* every class contributes between 0 and its size.
C9_SmallClasses ==
    (drawn.status # "none"
        /\ NumItems * frac >= 100
        /\ \E c \in DOMAIN class_counts : class_counts[c] * frac < 100) =>
        /\ drawn.status = "ok"
        /\ \A c \in DOMAIN class_counts :
              0 <= drawn.n_i[c] /\ drawn.n_i[c] <= class_counts[c]

\* C10 (as claimed): the view is accepted wherever the dataset abstraction is
\* expected; a subsampler given the view as its dataset finds its label list.
C10_Substitutable ==
    nested # "NotImplementedError"

\* C10 (amended): the view has a length and an (item, label) pair of the dataset
\* at each of its positions, and exposes neither targets nor labels: a subsampler
\* given the view as its dataset fails with NotImplementedError.
C10_LengthAndItemsOnly ==
    outcome.status = "ok" =>
        /\ SubsetLen(outcome.view) \in 0..DatasetLen(dataset)
        /\ \A i \in 0..(SubsetLen(outcome.view) - 1) :
              SubsetGetItem(outcome.view, i)
                  \in {DatasetGetItem(dataset, k) : k \in 0..(DatasetLen(dataset) - 1)}
        /\ ~Labelled(outcome.view)
        /\ nested \in {"none", "NotImplementedError"}

\* C10 witness: a subsampler given a view of two items as its dataset has failed.
C10_Witness ==
    /\ outcome.status = "ok"
    /\ SubsetLen(outcome.view) = 2
    /\ nested = "NotImplementedError"

\* C12: a call leaves the subsampler's stored fraction and seed (and with them
\* the object as constructed) unchanged, and leaves the items and the label
\* lists of the dataset it is called on as they were.
C12_CallLeavesInputs ==
    [][builds' # builds =>
          /\ sampler' = sampler
          /\ ctor' = ctor
          /\ dataset' = dataset]_vars

\* C12 witness: a subsampler with fraction 41 and seed 1 has been called twice on
\* a dataset of four items and still holds fraction 41 and seed 1.
C12_Witness ==
    /\ builds = 2
    /\ sampler = [dataset_size |-> 41, random_value |-> 1, built |-> TRUE]
    /\ DatasetLen(dataset) = 4
    /\ outcome.status = "ok"
    /\ dataset.items = Items(4)

\* the label list the call is to stratify by: targets where the dataset has
\* them, labels otherwise
LabelListOf(d) == IF "targets" \in DOMAIN d THEN d.targets ELSE d.labels

\* C13: every index of a returned subset is an index of the dataset, one of
\* 0..len(D)-1, and no index occurs twice in it.
C13_IndicesInRangeDistinct ==
    /\ outcome.status = "ok" =>
          /\ \A i \in DOMAIN outcome.view.indices :
                outcome.view.indices[i] \in 0..(DatasetLen(dataset) - 1)
          /\ \A i \in DOMAIN outcome.view.indices : \A j \in DOMAIN outcome.view.indices :
                i # j => outcome.view.indices[i] # outcome.view.indices[j]
    /\ \A e \in log :
          /\ Range(e.indices) \subseteq 0..(Len(e.targets) - 1)
          /\ Cardinality(Range(e.indices)) = Len(e.indices)

\* C13 witness: three of the four indices of a dataset were selected.
C13_Witness ==
    /\ outcome.status = "ok"
    /\ DatasetLen(dataset) = 4
    /\ sampler.dataset_size = 99
    /\ Len(outcome.view.indices) = 3

\* C14: a successful call stratified by targets when the dataset has targets,
\* whether or not it also has labels, and by labels when it has labels only: the
\* label list it used is that one, and the indices it selected are a split that
\* is stratified by that list.
C14_TargetsBeforeLabels ==
    outcome.status = "ok" =>
        /\ \A e \in log : e.targets = LabelListOf(dataset)
        /\ \E e \in log : e.indices = outcome.view.indices
        /\ outcome.view.indices
              \in TrainTestSplit(LabelListOf(dataset), sampler.dataset_size).choices

\* C14 witness: a dataset whose targets have two classes of two and whose labels
\* put all four items in one class; one index of each class of targets selected.
C14_Witness ==
    /\ outcome.status = "ok"
    /\ "labels" \in DOMAIN dataset
    /\ "targets" \in DOMAIN dataset
    /\ dataset.targets = <<0, 0, 1, 1>>
    /\ dataset.labels = <<0, 0, 0, 0>>
    /\ sampler.dataset_size = 50
    /\ Len(outcome.view.indices) = 2
    /\ {dataset.targets[outcome.view.indices[i] + 1] : i \in 1..2} = {0, 1}

\* the events of the call that starts at position i of events
CallSegment(i) ==
    {j \in DOMAIN events :
        /\ j >= i
        /\ \A k \in (i + 1)..j : events[k].op # "call"}

\* C15: every call invokes dataset_func exactly once, as its first step and with
\* exactly the keyword arguments the call was given, before the probe for the
\* label list; the missing-labels error is raised only once the dataset is built
\* and probed, and the build is not repeated after it.
C15_BuildOnceBeforeProbe ==
    /\ builds = NumCalls
    /\ \A i \in DOMAIN events :
          events[i].op = "call" =>
              /\ i + 1 \in DOMAIN events
              /\ events[i + 1].op = "dataset_func"
              /\ events[i + 1].kw = events[i].kw
              /\ events[i].kw = LoaderKwargs(data_module.name, events[i].loader)
              /\ Cardinality({j \in CallSegment(i) : events[j].op = "dataset_func"}) = 1
              /\ \A j \in CallSegment(i) :
                    /\ events[j].op = "hasattr" => j = i + 2
                    /\ (events[j].op = "raise" /\ events[j].status = "NotImplementedError") =>
                          /\ j = i + 3
                          /\ events[j - 1].op = "hasattr"
                          /\ j = Len(events) \/ events[j + 1].op = "call"

\* C15 witness: the train dataloader of the GroceryStore module built the train
\* split once, with the keyword arguments of the dataloader, and then failed.
C15_Witness ==
    /\ data_module.name = "GroceryStore"
    /\ builds = 1
    /\ Len(events) = 4
    /\ events[1].loader = "train"
    /\ events[2].op = "dataset_func"
    /\ events[2].kw = [root |-> "root_dir", key |-> "split", value |-> "train",
                       transform |-> "train", download |-> TRUE]
    /\ events[4].status = "NotImplementedError"

\* C16: the seed of a constructed module is an integer of 0..dataset_size; every
\* split any of its dataloaders made was given the fraction and the seed of the
\* construction; dataloader calls with the same keyword arguments (two calls of
\* train_dataloader) returned the same indices; and what the val and test
\* dataloaders returned is a split of their part of the data by that fraction,
\* drawn by the generator of that seed.
C16_OneSeedForAllLoaders ==
    /\ sampler.built =>
          sampler.random_value \in 0..sampler.dataset_size
    /\ \A i \in DOMAIN events :
          /\ events[i].op = "train_test_split" =>
                /\ events[i].dataset_size = sampler.dataset_size
                /\ events[i].random_value = sampler.random_value
          /\ events[i].op = "return" =>
                LET y == data_module.source[PartOf(events[i].kw)]
                IN  /\ events[i].indices
                          \in TrainTestSplit(y, sampler.dataset_size).choices
                    /\ rng[<<sampler.random_value, <<y, sampler.dataset_size>>>>]
                          = events[i].indices
                    /\ \A j \in DOMAIN events :
                          (events[j].op = "return" /\ events[j].kw = events[i].kw) =>
                              events[j].indices = events[i].indices

\* C16 witness: a CIFAR10 module with fraction 50 drew the seed 1; its train
\* dataloader was called twice and its val dataloader once, all three returned.
C16_Witness ==
    /\ data_module.name = "CIFAR10"
    /\ sampler = [dataset_size |-> 50, random_value |-> 1, built |-> TRUE]
    /\ Len(events) = 15
    /\ events[1].loader = "train"
    /\ events[6].loader = "train"
    /\ events[11].loader = "val"
    /\ events[5].op = "return"
    /\ events[10].indices = events[5].indices
    /\ events[15].op = "return"
    /\ Len(events[15].indices) = 2

\* C17 (as claimed): no dataloader call of a module of all_datasets_minimized
\* (here: of one constructed with fraction 50) fails with the missing-labels
\* error.
C17_NoMissingLabels ==
    sampler.dataset_size = 50 =>
        \A i \in DOMAIN events :
            ~(events[i].op = "raise" /\ events[i].status = "NotImplementedError")

\* C11 (as claimed): under every interleaving a process that calls the
\* subsampler ends as it does when it runs alone.
C11_SameAsAlone ==
    \A p \in DOMAIN procs :
        procs[p].pc = "done" => procs[p].result = AloneOutcome

\* C19: after any sequence of validation epochs acc_max is the largest of 0 and
\* the validation accuracies computed so far; no step lowers it; and the
\* acc_max/val logged by a validation epoch is not less than the acc/val logged
\* with it.
C19_AccMaxIsRunningMax ==
    /\ [](/\ \A a \in hist.accs : ~Gt(a, tm.acc_max)
          /\ tm.acc_max \in hist.accs \cup {Ratio(0, 1)}
          /\ hist.accs # {} =>
                /\ logged.acc_max_val = tm.acc_max
                /\ ~Gt(logged.acc_val, logged.acc_max_val))
    /\ [][~Gt(tm.acc_max, tm.acc_max')]_vars

\* C19 witness: a validation epoch at 50 percent was followed by one at 0
\* percent; acc_max is 50 and the last acc/val logged is 0.
C19_Witness ==
    /\ hist.accs = {Ratio(50, 1), Ratio(0, 1)}
    /\ tm.acc_max = Ratio(50, 1)
    /\ logged.acc_val = Ratio(0, 1)
    /\ logged.acc_max_val = Ratio(50, 1)

\* C20 (as claimed): the acc/val a validation epoch logs is the accuracy over
\* exactly the batches passed to validation_step since the previous
\* validation_epoch_end.
C20_ValFromValBatchesOnly ==
    hist.last_val.total > 0 =>
        logged.acc_val = Ratio(100 * hist.last_val.correct, hist.last_val.total)

\* the triples of the configuration in nested order: datasets, models, checkpoints
TriplesInOrder ==
    [n \in 1..(Len(config.datasets) * Len(config.models) * Len(config.checkpoint_inputs)) |->
        LET mc == Len(config.models) * Len(config.checkpoint_inputs)
            c  == Len(config.checkpoint_inputs)
        IN  <<((n - 1) \div mc) + 1, (((n - 1) % mc) \div c) + 1, ((n - 1) % c) + 1>>]

\* the part of C18 on order and on sweeps and command lines: when main has
\* completed with every checkpoint file there, it has gone through the triples
\* once each in nested order, writing, registering and appending for each in
\* turn, and has registered d*m*c sweeps and appended d*m*c command lines
SweepOpsInOrder ==
    (sweep.pc = "done" /\ config.ckpt_files = AllCheckpointFiles) =>
        /\ Len(world.ops) = 3 * Len(TriplesInOrder)
        /\ \A n \in DOMAIN TriplesInOrder :
              /\ world.ops[3 * n - 2] = [op |-> "write", t |-> TriplesInOrder[n]]
              /\ world.ops[3 * n - 1] = [op |-> "sweep", t |-> TriplesInOrder[n]]
              /\ world.ops[3 * n] = [op |-> "append", t |-> TriplesInOrder[n]]
        /\ Len(world.sweeps) = Len(TriplesInOrder)
        /\ Len(world.commands) = Len(TriplesInOrder)

\* C18 (as claimed): when main has completed with every checkpoint file there,
\* it has processed the d*m*c triples once each in nested order, and d*m*c
\* sweeps are registered, d*m*c command lines appended and d*m*c distinct script
\* files exist.
C18_OneScriptPerTriple ==
    (sweep.pc = "done" /\ config.ckpt_files = AllCheckpointFiles) =>
        /\ SweepOpsInOrder
        /\ Cardinality(DOMAIN world.scripts) = Len(TriplesInOrder)

\* the number of triples that come before <<i, j, k>> in the nested order
TriplesBefore(i, j, k) ==
    ((i - 1) * Len(config.models) + (j - 1)) * Len(config.checkpoint_inputs) + (k - 1)

\* C24: a step of main that ends in IndexError is the lookup of a checkpoint
\* that matches no file: it leaves the scripts, sweeps and command lines as
\* they were and removes no directory, and what is there is the work of the
\* triples before it, each written, registered and appended in order. The
\* start of main without a configuration_file ends in FileNotFoundError with
\* nothing created; a FileNotFoundError comes from the start of main only,
\* before any script, sweep or command line. No step follows either error.
C24_AbortKeepsEarlierWork ==
    [][/\ sweep.pc \notin {"IndexError", "FileNotFoundError"}
       /\ (sweep.pc = "start" /\ ~config.has_file) =>
              /\ sweep'.pc = "FileNotFoundError"
              /\ world' = world
              /\ world.dirs = {} /\ DOMAIN world.scripts = {}
              /\ world.sweeps = <<>> /\ world.commands = <<>> /\ world.ops = <<>>
       /\ sweep'.pc = "FileNotFoundError" =>
              /\ sweep.pc = "start"
              /\ DOMAIN world'.scripts = {}
              /\ world'.sweeps = <<>> /\ world'.commands = <<>> /\ world'.ops = <<>>
       /\ sweep'.pc = "IndexError" =>
              LET nb == TriplesBefore(sweep.i, sweep.j, sweep.k)
              IN  /\ sweep.pc = "triple"
                  /\ <<sweep'.i, sweep'.j, sweep'.k>> = <<sweep.i, sweep.j, sweep.k>>
                  /\ CheckpointFile(config.models[sweep.j],
                                    config.checkpoint_inputs[sweep.k]) \notin config.ckpt_files
                  /\ world'.scripts = world.scripts
                  /\ world'.sweeps = world.sweeps
                  /\ world'.commands = world.commands
                  /\ world'.ops = world.ops
                  /\ world.dirs \subseteq world'.dirs
                  /\ Len(world'.ops) = 3 * nb
                  /\ \A n \in 1..nb :
                        /\ world'.ops[3 * n - 2] = [op |-> "write", t |-> TriplesInOrder[n]]
                        /\ world'.ops[3 * n - 1] = [op |-> "sweep", t |-> TriplesInOrder[n]]
                        /\ world'.ops[3 * n] = [op |-> "append", t |-> TriplesInOrder[n]]
                  /\ Len(world'.sweeps) = nb
                  /\ Len(world'.commands) = nb
                  /\ \A n \in 1..nb :
                        ScriptPath(config.datasets[TriplesInOrder[n][1]],
                                   config.models[TriplesInOrder[n][2]],
                                   config.checkpoint_inputs[TriplesInOrder[n][3]])
                            \in DOMAIN world'.scripts
      ]_vars

\* main has aborted at a triple that is neither the first nor the last: the
\* sweeps and command lines of the earlier triples are there
C24_Witness ==
    /\ sweep.pc = "IndexError"
    /\ TriplesBefore(sweep.i, sweep.j, sweep.k) >= 1
    /\ TriplesBefore(sweep.i, sweep.j, sweep.k) + 1 < Len(TriplesInOrder)
    /\ Len(world.sweeps) = TriplesBefore(sweep.i, sweep.j, sweep.k)
    /\ Len(world.commands) = Len(world.sweeps)
    /\ SaveFolder(config.datasets[sweep.i], config.models[sweep.j]) \in world.dirs

\* C21: the validation sampler has the indices 0..floor(0.15 * n)-1 and the
\* training sampler the indices floor(0.15 * n)..n-1, each once and in order; the
\* two sets are disjoint and together are all of 0..n-1; the test dataloader has
\* the indices of the validation dataloader.
C21_SplitPartition ==
    LET n == split_module.n
        k == (15 * n) \div 100
    IN  /\ samplers.val.built =>
              samplers.val.indices = [p \in 1..k |-> p - 1]
        /\ samplers.train.built =>
              samplers.train.indices = [p \in 1..(n - k) |-> k + p - 1]
        /\ samplers.test.built =>
              samplers.test.indices = [p \in 1..k |-> p - 1]
        /\ (samplers.val.built /\ samplers.train.built) =>
              /\ Range(samplers.val.indices) \cap Range(samplers.train.indices) = {}
              /\ Range(samplers.val.indices) \cup Range(samplers.train.indices)
                    = 0..(n - 1)
              /\ Len(samplers.val.indices) + Len(samplers.train.indices) = n

\* C21 witness: a dataset of 20 items; all three dataloaders built, validation
\* and test over 0, 1, 2 and training over the 17 indices from 3.
C21_Witness ==
    /\ split_module.n = 20
    /\ samplers.val = [built |-> TRUE, indices |-> <<0, 1, 2>>]
    /\ samplers.test = [built |-> TRUE, indices |-> <<0, 1, 2>>]
    /\ samplers.train.built
    /\ Len(samplers.train.indices) = 17
    /\ samplers.train.indices[1] = 3

\* C22: a construction downloads exactly when download is set and root does
\* not exist, so over any sequence of constructions on one root at most one
\* download happens; a construction without download on a missing root raises
\* RuntimeError and downloads nothing.
C22_DownloadOnlyWhenMissing ==
    LET n       == Len(constructions)
        fetches == {i \in 1..n : constructions[i].fetched}
    IN  /\ Cardinality(fetches) <= 1
        /\ fetch.downloads = Cardinality(fetches)
        /\ \A i \in 1..n :
               LET c == constructions[i]
               IN  /\ c.fetched <=> (c.download /\ c.before = "absent")
                   /\ (~c.download /\ c.before = "absent")
                          => (c.status = "RuntimeError" /\ ~c.fetched)

\* a missing root on which a construction without download raised, one with
\* download fetched the data, and a later one with download fetched nothing
C22_Witness ==
    /\ Len(constructions) >= 3
    /\ \E i, j, k \in DOMAIN constructions :
           /\ i < j /\ j < k
           /\ ~constructions[i].download /\ constructions[i].status = "RuntimeError"
           /\ constructions[j].download /\ constructions[j].fetched
           /\ constructions[j].status = "ok"
           /\ constructions[k].download /\ ~constructions[k].fetched
           /\ constructions[k].status = "ok"
    /\ fetch.downloads = 1

\* C23: the three dataloaders of TinyImageNetData succeed in any order: on a
\* root where the data is not yet present, or is present in full, every
\* dataloader call ends without an error, whichever calls came before it.
C23_AnyOrderSucceeds ==
    \A i \in DOMAIN constructions :
        (constructions[i].by = "TinyImageNetData" /\ constructions[i].before # "empty")
            => constructions[i].status = "ok"

\* the base name of the path begins with "cifar10-": the eight characters
\* after the last "/" are those of the prefix
BaseNameIsCifar10(f) ==
    \E i \in 0..Len(f) :
        /\ i = 0 \/ f[i] = "/"
        /\ \A j \in (i + 1)..Len(f) : f[j] # "/"
        /\ Len(f) >= i + 8
        /\ \A q \in 1..8 : f[i + q] = Cifar10Prefix[q]

\* C25: the training dataset holds every file under train for part "all",
\* the files whose base name begins with "cifar10-" for part "cifar10" and the
\* other files for part "imagenet"; the selections of "cifar10" and "imagenet"
\* are disjoint and together are the selection of "all"; the validation and
\* test datasets hold the image files under valid whatever the part is.
C25_PartsPartitionTraining ==
    /\ listed.train.status = "ok" =>
           /\ cinic.part = "all" => listed.train.files = cinic.train
           /\ cinic.part = "cifar10" =>
                  listed.train.files = {f \in cinic.train : BaseNameIsCifar10(f)}
           /\ cinic.part = "imagenet" =>
                  listed.train.files = {f \in cinic.train : ~BaseNameIsCifar10(f)}
    /\ TrainFiles("cifar10", cinic.train) \cap TrainFiles("imagenet", cinic.train) = {}
    /\ TrainFiles("cifar10", cinic.train) \cup TrainFiles("imagenet", cinic.train)
           = TrainFiles("all", cinic.train)
    /\ TrainFiles("all", cinic.train) = cinic.train
    /\ \A l \in {"val", "test"} :
           listed[l].status = "ok" =>
               listed[l].files = {f \in cinic.valid : EndsWith(Lower(f), <<".", "p", "n", "g">>)}

\* a module of part "cifar10" over a file of either kind: its training dataset
\* holds the cifar10 file only, its validation dataset a file of either kind
C25_Witness ==
    /\ cinic.part = "cifar10"
    /\ \E f, g \in cinic.train :
           /\ BaseNameIsCifar10(f) /\ ~BaseNameIsCifar10(g)
           /\ listed.train.status = "ok"
           /\ f \in listed.train.files /\ g \notin listed.train.files
    /\ listed.val.status = "ok"
    /\ \E f, g \in listed.val.files : BaseNameIsCifar10(f) /\ ~BaseNameIsCifar10(g)
====
